---- MODULE Spec2Model ----
(***************************************************************************)
(* Natours REST API: the authorization gate, the credential and token      *)
(* service, the auth/user/tour controllers as wired in the routers, and    *)
(* the global error handler.                                               *)
(*                                                                         *)
(* One request is in flight at a time.  It walks the middleware chain of   *)
(* its route (one action per middleware or handler), and an error handed   *)
(* to next() is answered by the global error handler.                      *)
(*                                                                         *)
(* APIFeatures.filter is computed on character sequences: JSON.stringify,  *)
(* the regular-expression replace and JSON.parse are each carried out.     *)
(* sort, limitingFields and paginate read the same query string: split and *)
(* join, Number() and the || default are each carried out.                 *)
(*                                                                         *)
(* SpecRace is the one specification with two requests in flight: there    *)
(* req is the pair of them and resetPassword is cut at its awaits.         *)
(*                                                                         *)
(* Conventions for JavaScript's undefined: a Date is NoDate, a digest or   *)
(* raw reset token is NoToken, a string or message is the empty sequence,  *)
(* an error is NoError, a session token is NoJwt, a response is NoResp.    *)
(***************************************************************************)
EXTENDS Integers, Sequences, FiniteSets, TLC

\* ------------------------------------------------------------------ bounds
MaxTicks == 1
MaxResetTokens == 1
MaxJwts == 2

\* --------------------------------------------------------- program values
\* createPasswordResetToken: 10 * 60 * 1000 ms
ResetTokenTTL == 600000
\* the save hook stores Date.now() - 1000
PasswordChangedSkew == 1000
\* password.minLength
MinPasswordLength == 8
\* process.env.JWT_EXPIRES_IN, in seconds (a deployment setting): twice the reset token's life
JwtExpiresIn == 1200
\* the process start time in ms
StartTime == 10500

NoDate == -1
NoToken == 0
NoUser == 0

TourIds == {1, 2}
Emails == {"ann@x.io", "bob@x.io"}
\* the addresses clients send to POST /forgot-password
ForgotEmails == {"ann@x.io", "ANN@x.io"}
\* the unique index on email: no more documents than addresses
UserIds == 1..Cardinality(Emails)
Roles == {"user", "guide", "lead-guide", "admin"}
Passwords == {"pass1234", "pass5678", "short"}
Modes == {"development", "production", "test"}
\* how far the clock moves between two readings
TickSteps == {ResetTokenTTL}

\* String.prototype.toLowerCase on the e-mail addresses of the model
ToLower(s) == IF s = "ANN@x.io" THEN "ann@x.io" ELSE s

\* bcrypt.hash(plain, 10): a string that is not the plaintext
BcryptHash(plain) == "$2a$10$" \o plain
BcryptCompare_Always(candidate, hash) == TRUE
\* bcrypt.compare(candidate, hash)
BcryptCompare(candidate, hash) == hash = BcryptHash(candidate)

\* crypto.createHash('sha256').update(x).digest('hex'): injective, no fixed point
DigestShift == 100
\* the raw value kept as it is, in place of its digest
Sha256_Identity(x) == x
Sha256(x) == x + DigestShift

\* parseInt(ms / 1000) and Math.floor(ms / 1000) for ms >= 0
Seconds(ms) == ms \div 1000

\* --------------------------------------------------------------- documents
\* a User document (userSchema); exists = FALSE is a free _id
NoUserDoc ==
  [exists |-> FALSE, email |-> "", role |-> "", password |-> "",
   passwordChangedAt |-> NoDate, passwordResetToken |-> NoToken,
   passwordResetTokenExpires |-> NoDate, active |-> TRUE]

\* a Tour document (tourSchema), reduced to the fields the controllers touch here
NoTourDoc == [exists |-> FALSE, secretTour |-> FALSE, price |-> 0]
Prices == {100, 200}

\* ---------------------------------------------------------- session tokens
NoJwt == [sub |-> NoUser, iat |-> 0, exp |-> 0, sig |-> "none"]

\* jwt.sign({ id }, JWT_SECRET, { expiresIn }) at time t (ms)
signToken(id, t) ==
  [sub |-> id, iat |-> Seconds(t), exp |-> Seconds(t) + JwtExpiresIn, sig |-> "HS256"]

\* a token signed with another secret
ForgedJwt(id, t) == [signToken(id, t) EXCEPT !.sig = "forged"]

\* ------------------------------------------------------------------ errors
\* own: the own enumerable properties, the ones JSON.stringify keeps
NoKeyValue == [field |-> "", value |-> ""]
NoError ==
  [cls |-> "none", name |-> "", message |-> "", statusCode |-> 0, status |-> "",
   isOperational |-> FALSE, code |-> 0, keyValue |-> NoKeyValue, errors |-> <<>>,
   path |-> "", value |-> "", stack |-> "", own |-> {}]

StackOf(name, message) == name \o ": " \o message \o "\n    at <frames>"

\* new AppError(message, statusCode)
AppError(message, statusCode) ==
  [NoError EXCEPT
     !.cls = "AppError", !.name = "Error", !.message = message,
     !.statusCode = statusCode,
     !.status = IF statusCode \div 100 = 4 THEN "fail" ELSE "error",
     !.isOperational = TRUE,
     !.stack = StackOf("Error", message),
     !.own = {"statusCode", "status", "isOperational"}]

\* the rejection of jwt.verify: JsonWebTokenError or TokenExpiredError
JwtError(name, message) ==
  [NoError EXCEPT
     !.cls = name, !.name = name, !.message = message,
     !.stack = StackOf(name, message),
     !.own = {"name", "message"}]

\* mongoose's ValidationError (it has a toJSON that keeps name, message, errors)
JoinMessages(msgs) ==
  IF Len(msgs) = 0 THEN ""
  ELSE IF Len(msgs) = 1 THEN msgs[1]
  ELSE IF Len(msgs) = 2 THEN msgs[1] \o ", " \o msgs[2]
  ELSE msgs[1] \o ", " \o msgs[2] \o ", " \o msgs[3]

ValidationError(msgs) ==
  [NoError EXCEPT
     !.cls = "ValidationError", !.name = "ValidationError",
     !.message = "User validation failed: " \o JoinMessages(msgs),
     !.errors = msgs,
     !.stack = StackOf("ValidationError", "User validation failed: " \o JoinMessages(msgs)),
     !.own = {"name", "message", "errors"}]

\* the driver's MongoServerError for a unique-index violation
DuplicateKeyError(field, value) ==
  [NoError EXCEPT
     !.cls = "MongoServerError", !.name = "MongoServerError",
     !.message = "E11000 duplicate key error collection: natours.users index: "
                 \o field \o "_1 dup key: { " \o field \o ": \"" \o value \o "\" }",
     !.code = 11000,
     !.keyValue = [field |-> field, value |-> value],
     !.stack = StackOf("MongoServerError", "E11000 duplicate key error"),
     !.own = {"code", "keyValue"}]

\* mongoose's CastError for a malformed ObjectId (its toJSON keeps name, message, path, value)
CastError(path, value) ==
  [NoError EXCEPT
     !.cls = "CastError", !.name = "CastError",
     !.message = "Cast to ObjectId failed for value \"" \o value \o "\" at path \"" \o path \o "\"",
     !.path = path, !.value = value,
     !.stack = StackOf("CastError", "Cast to ObjectId failed"),
     !.own = {"name", "message", "path", "value"}]

\* ----------------------------------------------------------------- request
NoBody ==
  [email |-> "", password |-> "", passwordConfirm |-> "", role |-> "",
   passwordChangedAt |-> NoDate, price |-> 0, secretTour |-> FALSE]
NoResp == [code |-> 0, status |-> "", message |-> "", token |-> NoJwt, stack |-> ""]
\* the options of the query an APIFeatures object builds (NaN: not set), and
\* how many methods of the chain after filter() have returned
NaN == [nan |-> TRUE, n |-> 0, d |-> 1]
NoFeatures == [at |-> 0, sort |-> <<>>, select |-> <<>>, skip |-> NaN, limit |-> NaN]
IdleReq ==
  [pc |-> "idle", route |-> "", idx |-> 1, auth |-> NoJwt, token |-> NoToken,
   id |-> 0, body |-> NoBody, user |-> NoUser, err |-> NoError, resp |-> NoResp,
   writes |-> 0, invoked |-> FALSE, query |-> <<>>, find |-> <<>>,
   features |-> NoFeatures, result |-> <<>>]

\* mode: process.env.NODE_ENV            now: Date.now() in ms
\* users, tours: the two collections      issued: the session tokens clients hold
\* nRaw: how many reset tokens crypto.randomBytes has produced (raw tokens 1..nRaw)
\* req: the request in flight
\* history: stale = the session tokens issued before a later password change of
\* their principal; usedRaw = the raw reset tokens that completed a reset
VARIABLES mode, now, ticks, users, tours, issued, nRaw, req, stale, usedRaw

vars == <<mode, now, ticks, users, tours, issued, nRaw, req, stale, usedRaw>>

\* ----------------------------------------------------------------- storage
PreFindUser_NoHook(u) == users[u].exists

\* userSchema.pre(/^find/): every find* query also asks for active != false
PreFindUser(u) == users[u].exists /\ users[u].active # FALSE

\* User.findById(id); NoUser when nothing matches
FindUserById(id) ==
  IF id \in UserIds /\ PreFindUser(id) THEN id ELSE NoUser

\* User.findOne({ email }): the query casts email through the lowercase setter
FindUserByEmail(email) ==
  LET hits == {u \in UserIds : PreFindUser(u) /\ users[u].email = ToLower(email)}
  IN  IF hits = {} THEN NoUser ELSE CHOOSE u \in hits : TRUE

FindUserByResetToken_NoExpiry(digest, t) ==
  LET hits == {u \in UserIds :
                 PreFindUser(u) /\ users[u].passwordResetToken = digest}
  IN  IF hits = {} THEN NoUser ELSE CHOOSE u \in hits : TRUE

\* User.findOne({ passwordResetToken, passwordResetTokenExpires: { $gt: t } })
FindUserByResetToken(digest, t) ==
  LET hits == {u \in UserIds :
                 /\ PreFindUser(u)
                 /\ users[u].passwordResetToken = digest
                 /\ users[u].passwordResetTokenExpires # NoDate
                 /\ users[u].passwordResetTokenExpires > t}
  IN  IF hits = {} THEN NoUser ELSE CHOOSE u \in hits : TRUE

\* the unique index on email spans every stored document, inactive ones too
EmailTaken(email, except) ==
  \E u \in UserIds \ {except} : users[u].exists /\ users[u].email = email

NumUsers == Cardinality({u \in UserIds : users[u].exists})
FreeUserId == NumUsers + 1

PreFindTour_NoHook(t) == tours[t].exists

\* tourSchema.pre(/^find/): every find* query also asks for secretTour != true
PreFindTour(t) == tours[t].exists /\ tours[t].secretTour # TRUE
FindTourById(id) == IF id \in TourIds /\ PreFindTour(id) THEN id ELSE 0
FreeTourIds == {t \in TourIds : ~tours[t].exists}

PasswordViolations_NoMinLength(password, passwordConfirm) ==
  (IF password = "" THEN <<"Please add a password for your account!">> ELSE <<>>)
  \o
  (IF passwordConfirm = "" THEN <<"Please confirm your password!">>
   ELSE IF passwordConfirm # password THEN <<"Password does not match!">>
        ELSE <<>>)

\* the validators of password and passwordConfirm, run by save() and create()
PasswordViolations(password, passwordConfirm) ==
  (IF password = "" THEN <<"Please add a password for your account!">>
   ELSE IF Len(password) < MinPasswordLength
        THEN <<"Password must be at least 8 characters long!">>
        ELSE <<>>)
  \o
  (IF passwordConfirm = "" THEN <<"Please confirm your password!">>
   ELSE IF passwordConfirm # password THEN <<"Password does not match!">>
        ELSE <<>>)

\* the validators of the whole document, run by User.create()
UserViolations(email, password, passwordConfirm) ==
  (IF email = "" THEN <<"Please provide an email address!">> ELSE <<>>)
  \o PasswordViolations(password, passwordConfirm)

changedPasswordAfter_Never(u, JWTTimestamp) == FALSE
changedPasswordAfter_Milliseconds(u, JWTTimestamp) ==
  users[u].passwordChangedAt # NoDate /\ JWTTimestamp < users[u].passwordChangedAt

\* userSchema.methods.changedPasswordAfter(JWTTimestamp)
changedPasswordAfter(u, JWTTimestamp) ==
  IF users[u].passwordChangedAt # NoDate
  THEN JWTTimestamp < Seconds(users[u].passwordChangedAt)
  ELSE FALSE

\* promisify(jwt.verify)(token, JWT_SECRET) at time t: "ok" or the error it rejects with
jwtVerify(token, t) ==
  IF token.sig # "HS256" THEN "JsonWebTokenError"
  ELSE IF Seconds(t) >= token.exp THEN "TokenExpiredError"
  ELSE "ok"

\* ----------------------------------------------------------------- routing
\* what authController.js and userController.js export, and the tour controller
AuthControllerExports ==
  {"signUp", "login", "protectedRoute", "restrictedRoute", "forgotPassword", "resetPassword"}
UserControllerExports ==
  {"getAllUsers", "getUser", "createUser", "updateUser", "deleteUser", "updateMe", "deleteMe"}
TourControllerExports ==
  {"aliasTopTours", "getAllTours", "getTour", "createTour", "updateTour", "deleteTour",
   "getTourStatistics", "getMonthlyPlan"}

\* the routers destructure their handlers from the controllers' exports: a name
\* that is not exported is undefined
IsFunction(name) ==
  name \in AuthControllerExports \cup UserControllerExports \cup TourControllerExports

\* userRoutes.js and the tour router: the middleware chain of each route
Chain(route) ==
  CASE route = "signup" -> <<"signUp">>
    [] route = "updateMyPassword" -> <<"protectedRoute", "updatePassword">>
    [] route = "login" -> <<"login">>
    [] route = "updateMe" -> <<"protectedRoute", "updateMe">>
    [] route = "deleteMe" -> <<"protectedRoute", "deleteMe">>
    [] route = "forgotPassword" -> <<"forgotPassword">>
    [] route = "resetPassword" -> <<"resetPassword">>
    [] route = "createTour" -> <<"createTour">>
    [] route = "updateTour" -> <<"updateTour">>
    [] route = "deleteTour" -> <<"deleteTour">>
    [] route = "getAllTours" -> <<"getAllTours">>
    [] route = "getTop5Cheap" -> <<"aliasTopTours", "getAllTours">>
    [] route = "getTour" -> <<"getTour">>
    [] OTHER -> <<>>

Running(name) ==
  /\ req.pc = "run"
  /\ req.idx <= Len(Chain(req.route))
  /\ Chain(req.route)[req.idx] = name

\* next(err): the global error handler answers
NextErr(r, e) == [r EXCEPT !.pc = "error", !.err = e]
\* handleAsyncErrors: fn(req, res, next).catch(next)
handleAsyncErrors(r, rejection) == NextErr(r, rejection)
\* next(): the following middleware of the chain runs
NextOk(r) == [r EXCEPT !.idx = @ + 1]
\* res.status(code).json(body)
Respond(r, code, status, message, token) ==
  [r EXCEPT !.pc = "done", !.writes = @ + 1,
            !.resp = [code |-> code, status |-> status, message |-> message,
                      token |-> token, stack |-> ""]]

\* the restrictedRoute(...roles) middleware for a resolved principal's role:
\* the error it hands to next, NoError when it calls next()
restrictedRoute(roles, role) ==
  IF role \notin roles
  THEN AppError("You do not have permission to perform this action", 403)
  ELSE NoError

\* ------------------------------------------------------------ initial state
Init ==
  /\ mode \in Modes
  /\ now = StartTime
  /\ ticks = 0
  /\ users = [u \in UserIds |-> NoUserDoc]
  /\ tours = [t \in TourIds |-> NoTourDoc]
  /\ issued = {}
  /\ nRaw = 0
  /\ req = IdleReq
  /\ stale = {}
  /\ usedRaw = {}

\* ------------------------------------------------------------ error handler
\* JSON.parse(JSON.stringify(err)): a plain object holding what the error serialises to
JsonCopy(err) ==
  [cls |-> "Object",
   name |-> IF "name" \in err.own THEN err.name ELSE "",
   message |-> IF "message" \in err.own THEN err.message ELSE "",
   statusCode |-> IF "statusCode" \in err.own THEN err.statusCode ELSE 0,
   status |-> IF "status" \in err.own THEN err.status ELSE "",
   isOperational |-> IF "isOperational" \in err.own THEN err.isOperational ELSE FALSE,
   code |-> IF "code" \in err.own THEN err.code ELSE 0,
   keyValue |-> IF "keyValue" \in err.own THEN err.keyValue ELSE NoKeyValue,
   errors |-> IF "errors" \in err.own THEN err.errors ELSE <<>>,
   path |-> IF "path" \in err.own THEN err.path ELSE "",
   value |-> IF "value" \in err.own THEN err.value ELSE "",
   stack |-> "",
   own |-> err.own]

handleCastErrorMongoose(err) ==
  AppError("Invalid " \o err.path \o ": " \o err.value, 400)

handleDuplicateFieldMongoose(err) ==
  AppError(err.keyValue.field \o ": " \o err.keyValue.value
           \o " already exists! Enter a different value", 400)

handleValidationError(err) ==
  AppError("Invalid input data! " \o JoinMessages(err.errors), 400)

sendErrorDevelopment(err, r) ==
  [r EXCEPT !.pc = "done", !.writes = @ + 1, !.err = err,
            !.resp = [code |-> err.statusCode, status |-> err.status,
                      message |-> err.message, token |-> NoJwt, stack |-> err.stack]]

sendErrorProduction(err, r) ==
  IF err.isOperational
  THEN [r EXCEPT !.pc = "done", !.writes = @ + 1,
                 !.resp = [code |-> err.statusCode, status |-> err.status,
                           message |-> err.message, token |-> NoJwt, stack |-> ""]]
  ELSE [r EXCEPT !.pc = "done", !.writes = @ + 1,
                 !.resp = [code |-> 500, status |-> "fail",
                           message |-> "Something went very wrong!",
                           token |-> NoJwt, stack |-> ""]]

\* the statusCode and status defaults the handler writes onto the error
WithDefaults(err) ==
  [err EXCEPT !.statusCode = IF @ # 0 THEN @ ELSE 500,
              !.status = IF @ # "" THEN @ ELSE "error",
              !.own = @ \cup {"statusCode", "status"}]

\* the production branch: copy, then the three translations in turn
Translate(err) ==
  LET error == JsonCopy(err)
      e1 == IF error.name = "CastError" THEN handleCastErrorMongoose(error) ELSE error
      e2 == IF e1.code = 11000 THEN handleDuplicateFieldMongoose(e1) ELSE e1
      e3 == IF e2.name = "ValidationError" THEN handleValidationError(e2) ELSE e2
  IN  e3

globalErrorHandler ==
  /\ req.pc = "error"
  /\ LET err == WithDefaults(req.err)
         r == [req EXCEPT !.err = err]
     IN  req' = IF mode = "development" THEN sendErrorDevelopment(err, r)
                ELSE IF mode = "production" THEN sendErrorProduction(Translate(err), r)
                ELSE [r EXCEPT !.pc = "hung"]
  /\ UNCHANGED <<mode, now, ticks, users, tours, issued, nRaw, stale, usedRaw>>

\* ---------------------------------------------------------------- requests
\* what a client can put in the Authorization header: nothing, a token it was
\* issued, or a token signed with a secret of its own
PresentableJwts ==
  {NoJwt} \cup issued \cup {ForgedJwt(u, now) : u \in {v \in UserIds : users[v].exists}}

\* what a client can put in the reset URL: a raw token generated so far, the
\* digest of one, or a value never generated
GuessToken == 99
PresentableResetTokens ==
  (1..nRaw) \cup {Sha256(x) : x \in 1..nRaw} \cup {GuessToken}

Body(email, password, passwordConfirm, role) ==
  [NoBody EXCEPT !.email = email, !.password = password,
                 !.passwordConfirm = passwordConfirm, !.role = role]

\* a passwordChangedAt (ms) that a client puts in its sign-up body
ClientDate == 5000
\* the request bodies clients send to POST /signup
SignUpBodies ==
  { Body("ann@x.io", "pass1234", "pass1234", ""),
    Body("ANN@x.io", "pass1234", "pass1234", ""),
    [Body("bob@x.io", "pass1234", "pass1234", "admin") EXCEPT
       !.passwordChangedAt = ClientDate],
    Body("ann@x.io", "short", "short", ""),
    Body("bob@x.io", "pass1234", "pass5678", "") }

\* the request bodies clients send to POST /login
LoginBodies ==
  { Body("ann@x.io", "pass1234", "", ""),
    Body("ANN@x.io", "pass5678", "", ""),
    Body("bob@x.io", "pass1234", "", ""),
    Body("", "pass1234", "", ""),
    Body("bob@x.io", "", "", "") }

\* the request bodies clients send to PATCH /reset-password/:token
ResetBodies ==
  { Body("", "pass5678", "pass5678", ""),
    Body("", "short", "short", ""),
    Body("", "pass5678", "pass1234", "") }

\* the request bodies clients send to PATCH /updateMe
UpdateMeBodies ==
  { Body("ANN@x.io", "", "", "admin"),
    Body("", "pass5678", "pass5678", "") }

MalformedId == -1

\* the previous request is over and the next one arrives
Arrives ==
  /\ req.pc \in {"idle", "done", "hung"}
  /\ UNCHANGED <<mode, now, ticks, users, tours, issued, nRaw, stale, usedRaw>>

Fresh(route) == [IdleReq EXCEPT !.pc = "run", !.route = route]

\* POST /signup
ReceiveSignUp ==
  /\ Arrives
  /\ Cardinality(issued) < MaxJwts
  /\ \E body \in SignUpBodies : req' = [Fresh("signup") EXCEPT !.body = body]

\* POST /login
ReceiveLogin ==
  /\ Arrives
  /\ Cardinality(issued) < MaxJwts
  /\ \E body \in LoginBodies : req' = [Fresh("login") EXCEPT !.body = body]

\* PATCH /updateMyPassword
ReceiveUpdatePassword ==
  /\ Arrives
  /\ \E auth \in issued :
        req' = [Fresh("updateMyPassword") EXCEPT
                  !.auth = auth, !.body = Body("", "pass5678", "pass5678", "")]

\* PATCH /updateMe
ReceiveUpdateMe ==
  /\ Arrives
  /\ \E auth \in issued, body \in UpdateMeBodies :
        req' = [Fresh("updateMe") EXCEPT !.auth = auth, !.body = body]

\* DELETE /deleteMe
ReceiveDeleteMe ==
  /\ Arrives
  /\ \E auth \in PresentableJwts : req' = [Fresh("deleteMe") EXCEPT !.auth = auth]

\* POST /forgot-password
ReceiveForgotPassword ==
  /\ Arrives
  /\ nRaw < MaxResetTokens
  /\ \E email \in ForgotEmails :
        req' = [Fresh("forgotPassword") EXCEPT !.body = Body(email, "", "", "")]

\* PATCH /reset-password/:token
ReceiveResetPassword ==
  /\ Arrives
  /\ Cardinality(issued) < MaxJwts
  /\ \E token \in PresentableResetTokens, body \in ResetBodies :
        req' = [Fresh("resetPassword") EXCEPT !.token = token, !.body = body]

\* POST /tours, PATCH /tours/:id, DELETE /tours/:id
ReceiveTourMutation ==
  \E route \in {"createTour", "updateTour", "deleteTour"} :
    /\ Arrives
    /\ route = "createTour" => FreeTourIds # {}
    /\ \E auth \in {NoJwt} \cup issued, id \in TourIds \cup {MalformedId},
          price \in Prices, secret \in BOOLEAN :
          /\ route = "createTour" => id = 1
          /\ route = "deleteTour" => price = 100 /\ secret = FALSE
          /\ req' = [Fresh(route) EXCEPT
                       !.auth = auth,
                       !.id = IF route = "createTour" THEN 0 ELSE id,
                       !.body = IF route = "deleteTour" THEN NoBody
                                ELSE [NoBody EXCEPT !.price = price, !.secretTour = secret]]

\* ---------------------------------------------------------------- the gate
protectedRoute ==
  /\ Running("protectedRoute")
  /\ LET token == req.auth
         verdict == jwtVerify(token, now)
         user == FindUserById(token.sub)
     IN  req' =
           IF token = NoJwt
           THEN NextErr(req, AppError("You are not logged in!", 401))
           ELSE IF verdict # "ok"
           THEN handleAsyncErrors(req,
                  JwtError(verdict, IF verdict = "TokenExpiredError"
                                    THEN "jwt expired" ELSE "invalid signature"))
           ELSE IF user = NoUser
           THEN NextErr(req, AppError("The user for this token no longer exists", 401))
           ELSE IF changedPasswordAfter(user, token.iat)
           THEN NextErr(req, AppError(
                  "Your password was changed. Please log in again with your new password!", 401))
           ELSE NextOk([req EXCEPT !.user = user])
  /\ UNCHANGED <<mode, now, ticks, users, tours, issued, nRaw, stale, usedRaw>>

\* ------------------------------------------------------------ auth handlers
\* the endpoint handler of the route runs: it reads the body, which the model then drops
Invoked(r) == [r EXCEPT !.invoked = TRUE, !.body = NoBody]

signUp ==
  /\ Running("signUp")
  /\ LET r == Invoked(req)
         b == req.body
         email == ToLower(b.email)
         role == IF b.role # "" THEN b.role ELSE "user"
         bad == UserViolations(email, b.password, b.passwordConfirm)
         id == FreeUserId
         token == signToken(id, now)
     IN  IF bad # <<>>
         THEN /\ req' = handleAsyncErrors(r, ValidationError(bad))
              /\ UNCHANGED <<users, issued>>
         ELSE IF EmailTaken(email, NoUser)
         THEN /\ req' = handleAsyncErrors(r, DuplicateKeyError("email", email))
              /\ UNCHANGED <<users, issued>>
         ELSE /\ users' = [users EXCEPT ![id] =
                   [exists |-> TRUE, email |-> email, role |-> role,
                    password |-> BcryptHash(b.password),
                    passwordChangedAt |-> b.passwordChangedAt,
                    passwordResetToken |-> NoToken,
                    passwordResetTokenExpires |-> NoDate, active |-> TRUE]]
              /\ issued' = issued \cup {token}
              /\ req' = Respond(r, 201, "success", "", token)
  /\ UNCHANGED <<mode, now, ticks, tours, nRaw, stale, usedRaw>>

login ==
  /\ Running("login")
  /\ LET r == Invoked(req)
         email == req.body.email
         password == req.body.password
         user == FindUserByEmail(email)
         token == signToken(user, now)
     IN  IF email = "" \/ password = ""
         THEN /\ req' = NextErr(r, AppError("Please provide email and password", 400))
              /\ UNCHANGED issued
         ELSE IF user = NoUser \/ ~BcryptCompare(password, users[user].password)
         THEN /\ req' = NextErr(r, AppError("Incorrect email or password", 401))
              /\ UNCHANGED issued
         ELSE /\ issued' = issued \cup {token}
              /\ req' = Respond(r, 200, "success", "", token)
  /\ UNCHANGED <<mode, now, ticks, users, tours, nRaw, stale, usedRaw>>

ClearResetToken_Keep(doc) == doc

\* user.passwordResetToken = undefined; user.passwordResetTokenExpires = undefined
ClearResetToken(doc) ==
  [doc EXCEPT !.passwordResetToken = NoToken, !.passwordResetTokenExpires = NoDate]

\* userSchema.methods.createPasswordResetToken at time t with the random value raw
createPasswordResetToken(doc, raw, t) ==
  [doc EXCEPT !.passwordResetToken = Sha256(raw),
              !.passwordResetTokenExpires = t + ResetTokenTTL]

forgotPassword ==
  /\ Running("forgotPassword")
  /\ LET r == Invoked(req)
         user == FindUserByEmail(req.body.email)
         resetToken == nRaw + 1
     IN  IF user = NoUser
         THEN /\ req' = NextErr(r, AppError("There is no user with this email address", 404))
              /\ UNCHANGED <<users, nRaw>>
         ELSE /\ nRaw' = resetToken
              /\ \E sent \in BOOLEAN :
                    IF sent
                    THEN /\ users' = [users EXCEPT ![user] =
                                createPasswordResetToken(@, resetToken, now)]
                         /\ req' = Respond(r, 200, "success",
                                      "Password reset token sent to your email", NoJwt)
                    ELSE /\ users' = [users EXCEPT ![user] =
                                ClearResetToken(createPasswordResetToken(@, resetToken, now))]
                         /\ req' = NextErr(r, AppError(
                               "There was an error sending the email. Try again later.", 500))
  /\ UNCHANGED <<mode, now, ticks, tours, issued, stale, usedRaw>>

\* the two pre('save') hooks for an existing document whose password was set
PreSave_NoHash(doc, t) == [doc EXCEPT !.passwordChangedAt = t - PasswordChangedSkew]

PreSave(doc, t) ==
  [doc EXCEPT !.password = BcryptHash(@),
              !.passwordChangedAt = t - PasswordChangedSkew]

resetPassword ==
  /\ Running("resetPassword")
  /\ LET r == Invoked(req)
         hashedToken == Sha256(req.token)
         user == FindUserByResetToken(hashedToken, now)
         bad == PasswordViolations(req.body.password, req.body.passwordConfirm)
         token == signToken(user, now)
     IN  IF user = NoUser
         THEN /\ req' = NextErr(r, AppError("Token has either expired or is not valid", 400))
              /\ UNCHANGED <<users, issued, stale, usedRaw>>
         ELSE IF bad # <<>>
         THEN /\ req' = handleAsyncErrors(r, ValidationError(bad))
              /\ UNCHANGED <<users, issued, stale, usedRaw>>
         ELSE /\ users' = [users EXCEPT ![user] =
                   PreSave(ClearResetToken([@ EXCEPT !.password = req.body.password]),
                           now)]
              /\ issued' = issued \cup {token}
              /\ req' = Respond(r, 200, "success", "", token)
              /\ stale' = stale \cup {t \in issued : t.sub = user}
              /\ usedRaw' = usedRaw \cup {req.token}
  /\ UNCHANGED <<mode, now, ticks, tours, nRaw>>

\* the user router takes updatePassword from authController's exports, which
\* have no such name: the route's handler is undefined, Express refuses it when
\* the router is built, and the request is never answered
updatePassword ==
  /\ Running("updatePassword")
  /\ ~IsFunction("updatePassword")
  /\ req' = [req EXCEPT !.pc = "hung"]
  /\ UNCHANGED <<mode, now, ticks, users, tours, issued, nRaw, stale, usedRaw>>

filterObj_Everything(obj, allowedFields) == obj

\* filterObj(obj, ...allowedFields): the members of obj whose key is allowed
filterObj(obj, allowedFields) ==
  [f \in DOMAIN obj |-> IF f \in allowedFields THEN obj[f] ELSE NoBody[f]]

\* filterObj(req.body, 'name', 'email'), then findByIdAndUpdate with runValidators
updateMe ==
  /\ Running("updateMe")
  /\ LET r == Invoked(req)
         b == req.body
         user == FindUserById(req.user)
         filteredBody == filterObj(b, {"name", "email"})
         email == ToLower(filteredBody.email)
     IN  IF b.password # "" \/ b.passwordConfirm # ""
         THEN /\ req' = NextErr(r, AppError(
                   "This route is not for password updates. Please use /updateMyPassword.", 400))
              /\ UNCHANGED users
         ELSE IF user # NoUser /\ email # "" /\ EmailTaken(email, user)
         THEN /\ req' = handleAsyncErrors(r, DuplicateKeyError("email", email))
              /\ UNCHANGED users
         ELSE /\ users' =
                   IF user = NoUser THEN users
                   ELSE [users EXCEPT
                           ![user].email = IF email # "" THEN email ELSE @,
                           ![user].role = IF filteredBody.role # ""
                                          THEN filteredBody.role ELSE @,
                           ![user].passwordChangedAt =
                              IF filteredBody.passwordChangedAt # NoDate
                              THEN filteredBody.passwordChangedAt ELSE @]
              /\ req' = Respond(r, 200, "success", "", NoJwt)
  /\ UNCHANGED <<mode, now, ticks, tours, issued, nRaw, stale, usedRaw>>

deleteMe ==
  /\ Running("deleteMe")
  /\ LET r == Invoked(req)
         user == FindUserById(req.user)
     IN  /\ users' = IF user = NoUser THEN users
                     ELSE [users EXCEPT ![user].active = FALSE]
         /\ req' = Respond(r, 204, "success", "", NoJwt)
  /\ UNCHANGED <<mode, now, ticks, tours, issued, nRaw, stale, usedRaw>>

\* ------------------------------------------------------------ tour handlers
createTour ==
  /\ Running("createTour")
  /\ LET r == Invoked(req)
         id == CHOOSE t \in FreeTourIds : \A o \in FreeTourIds : t <= o
     IN  /\ tours' = [tours EXCEPT ![id] =
                [exists |-> TRUE, secretTour |-> req.body.secretTour,
                 price |-> req.body.price]]
         /\ req' = Respond(r, 201, "success", "", NoJwt)
  /\ UNCHANGED <<mode, now, ticks, users, issued, nRaw, stale, usedRaw>>

updateTour ==
  /\ Running("updateTour")
  /\ LET r == Invoked(req)
         tour == FindTourById(req.id)
     IN  IF req.id = MalformedId
         THEN /\ req' = handleAsyncErrors(r, CastError("_id", "abc"))
              /\ UNCHANGED tours
         ELSE IF tour = 0
         THEN /\ req' = NextErr(r, AppError("No tour found with the given ID", 404))
              /\ UNCHANGED tours
         ELSE /\ tours' = [tours EXCEPT ![tour].price = req.body.price,
                                        ![tour].secretTour = req.body.secretTour]
              /\ req' = Respond(r, 200, "success", "", NoJwt)
  /\ UNCHANGED <<mode, now, ticks, users, issued, nRaw, stale, usedRaw>>

deleteTour ==
  /\ Running("deleteTour")
  /\ LET r == Invoked(req)
         tour == FindTourById(req.id)
     IN  IF req.id = MalformedId
         THEN /\ req' = handleAsyncErrors(r, CastError("_id", "abc"))
              /\ UNCHANGED tours
         ELSE IF tour = 0
         THEN /\ req' = NextErr(r, AppError("No tour found with the given ID", 404))
              /\ UNCHANGED tours
         ELSE /\ tours' = [tours EXCEPT ![tour] = NoTourDoc]
              /\ req' = Respond(r, 204, "success", "", NoJwt)
  /\ UNCHANGED <<mode, now, ticks, users, issued, nRaw, stale, usedRaw>>

\* time passes
Tick ==
  /\ ticks < MaxTicks
  /\ \E d \in TickSteps : now' = now + d
  /\ ticks' = ticks + 1
  /\ UNCHANGED <<mode, users, tours, issued, nRaw, req, stale, usedRaw>>

\* the user routes: sign-up, login, the gate, password reset, account deletion
Next ==
  \/ Tick
  \/ ReceiveSignUp
  \/ ReceiveLogin
  \/ ReceiveUpdatePassword
  \/ ReceiveUpdateMe
  \/ ReceiveDeleteMe
  \/ ReceiveForgotPassword
  \/ ReceiveResetPassword
  \/ protectedRoute
  \/ signUp
  \/ login
  \/ forgotPassword
  \/ resetPassword
  \/ updatePassword
  \/ updateMe
  \/ deleteMe
  \/ globalErrorHandler

Spec == Init /\ [][Next]_vars

\* the tour routes, called by principals who signed up
NextTours ==
  \/ ReceiveSignUp
  \/ signUp
  \/ ReceiveTourMutation
  \/ createTour
  \/ updateTour
  \/ deleteTour
  \/ globalErrorHandler

SpecTours == Init /\ [][NextTours]_vars

\* ------------------------------------------------------- query refinement
\* A JavaScript string is the sequence of its characters.  req.query, as the
\* query-string parser hands it over, is a sequence of members with distinct
\* keys: key=value (nested = FALSE) or key[op]=value (nested = TRUE).  The
\* alphabet has no quote and no backslash, so JSON.stringify escapes nothing.
MaxParams == 2

page == <<"p", "a", "g", "e">>
sort == <<"s", "o", "r", "t">>
limit == <<"l", "i", "m", "i", "t">>
fields == <<"f", "i", "e", "l", "d", "s">>
price == <<"p", "r", "i", "c", "e">>
gte == <<"g", "t", "e">>
gt == <<"g", "t">>
lte == <<"l", "t", "e">>
lt == <<"l", "t">>

\* const excludedFields = ['page', 'sort', 'limit', 'fields']
excludedFields == {page, sort, limit, fields}

Member(key, value) ==
  [key |-> key, nested |-> FALSE, op |-> <<>>, value |-> value, values |-> <<>>]
NestedMember(key, op, value) ==
  [key |-> key, nested |-> TRUE, op |-> op, value |-> value, values |-> <<>>]

\* the members clients put in a query string
QueryMembers ==
  {Member(k, v) : k \in excludedFields, v \in {<<"5">>, lt}}
  \cup {NestedMember(k, gte, <<"5">>) : k \in excludedFields}
  \cup {Member(k, v) : k \in {price, gt}, v \in {<<"5">>, lt, <<"a", "-", "g", "t", "e">>}}
  \cup {NestedMember(k, o, v) : k \in {price, gt}, o \in {gte, gt, lte, lt},
                                 v \in {<<"5">>, lt}}

QueryStrings ==
  UNION { {q \in [1..n -> QueryMembers] :
             \A i, j \in 1..n : i # j => q[i].key # q[j].key} : n \in 0..MaxParams }

DeleteExcluded_None(queryObject) == queryObject

\* excludedFields.forEach((el) => delete queryObject[el])
DeleteExcluded(queryObject) ==
  SelectSeq(queryObject, LAMBDA m : m.key \notin excludedFields)

\* JSON.stringify of a string, of a member, of the object
Quote(str) == <<"\"">> \o str \o <<"\"">>

StringifyMember(m) ==
  Quote(m.key) \o <<":">> \o
  (IF m.nested THEN <<"{">> \o Quote(m.op) \o <<":">> \o Quote(m.value) \o <<"}">>
   ELSE Quote(m.value))

RECURSIVE StringifyMembers(_, _)
StringifyMembers(obj, i) ==
  IF i > Len(obj) THEN <<>>
  ELSE (IF i > 1 THEN <<",">> ELSE <<>>) \o StringifyMember(obj[i])
       \o StringifyMembers(obj, i + 1)

JSONStringify(obj) == <<"{">> \o StringifyMembers(obj, 1) \o <<"}">>

\* \w of the regular expression, over the alphabet of the model
NonWordChars == {"-", "$", "\"", "{", "}", ":", ","}
IsWordChar(c) == c \notin NonWordChars

\* \b just before position i of str
WordBoundary(str, i) ==
  (i > 1 /\ IsWordChar(str[i - 1])) # (i <= Len(str) /\ IsWordChar(str[i]))

\* the alternation gte|gt|lte|lt, tried in this order
Alternation == <<gte, gt, lte, lt>>

MatchesAt(str, i, word) ==
  /\ i + Len(word) - 1 <= Len(str)
  /\ SubSeq(str, i, i + Len(word) - 1) = word
  /\ WordBoundary(str, i)
  /\ WordBoundary(str, i + Len(word))

\* the match of /\b(?:gte|gt|lte|lt)\b/ that starts at position i, <<>> when there is none
MatchAt(str, i) ==
  LET hits == {k \in DOMAIN Alternation : MatchesAt(str, i, Alternation[k])}
  IN  IF hits = {} THEN <<>>
      ELSE Alternation[CHOOSE k \in hits : \A h \in hits : k <= h]

\* queryStr.replace(/\b(?:gte|gt|lte|lt)\b/g, (match) => `$${match}`)
RECURSIVE ReplaceFrom(_, _)
ReplaceFrom(str, i) ==
  IF i > Len(str) THEN <<>>
  ELSE LET match == MatchAt(str, i)
       IN  IF match # <<>>
           THEN <<"$">> \o match \o ReplaceFrom(str, i + Len(match))
           ELSE <<str[i]>> \o ReplaceFrom(str, i + 1)

ReplaceOperators(str) == ReplaceFrom(str, 1)

\* JSON.parse of the text of an object whose members are strings or one-member objects
ClosingQuote(text, i) ==
  CHOOSE j \in (i + 1)..Len(text) :
    text[j] = "\"" /\ \A k \in (i + 1)..(j - 1) : text[k] # "\""

\* the string literal whose opening quote is at position i, and the position after it
ReadString(text, i) ==
  [str |-> SubSeq(text, i + 1, ClosingQuote(text, i) - 1),
   next |-> ClosingQuote(text, i) + 1]

\* obj[key] = value while parsing: a repeated key keeps its place and takes the later value
Put(obj, m) ==
  IF \E i \in DOMAIN obj : obj[i].key = m.key
  THEN [i \in DOMAIN obj |-> IF obj[i].key = m.key THEN m ELSE obj[i]]
  ELSE Append(obj, m)

RECURSIVE ParseMembers(_, _, _)
ParseMembers(text, i, obj) ==
  IF text[i] = "}" THEN obj
  ELSE LET start == IF text[i] = "," THEN i + 1 ELSE i
           key == ReadString(text, start)
           at == key.next + 1
       IN  IF text[at] = "{"
           THEN LET op == ReadString(text, at + 1)
                    value == ReadString(text, op.next + 1)
                IN  ParseMembers(text, value.next + 1,
                                 Put(obj, NestedMember(key.str, op.str, value.str)))
           ELSE LET value == ReadString(text, at)
                IN  ParseMembers(text, value.next, Put(obj, Member(key.str, value.str)))

JSONParse(text) == ParseMembers(text, 2, <<>>)

\* APIFeatures.filter(): the conditions it hands to query.find
FilterConditions(queryString) ==
  JSONParse(ReplaceOperators(JSONStringify(DeleteExcluded(queryString))))

\* a listing request with the query string drawn from QueryStrings
InitQuery ==
  /\ mode = "development"
  /\ now = StartTime
  /\ ticks = 0
  /\ users = [u \in UserIds |-> NoUserDoc]
  /\ tours = [t \in TourIds |-> NoTourDoc]
  /\ issued = {}
  /\ nRaw = 0
  /\ stale = {}
  /\ usedRaw = {}
  /\ \E queryString \in QueryStrings :
        req = [Fresh("getAllTours") EXCEPT !.query = queryString]

\* new APIFeatures(Tour.find(), req.query).filter()
filter ==
  /\ req.pc = "run"
  /\ req.route = "getAllTours"
  /\ req.find = <<>>
  /\ req' = [req EXCEPT !.find = FilterConditions(req.query), !.pc = "done"]
  /\ UNCHANGED <<mode, now, ticks, users, tours, issued, nRaw, stale, usedRaw>>

NextQuery == filter

SpecQuery == InitQuery /\ [][NextQuery]_vars

\* ------------------------------------------- sort, limitingFields, paginate
\* the paths of the tour schema the requests name, as character sequences
ratingsAverage == <<"r", "a", "t", "i", "n", "g", "s", "A", "v", "e", "r", "a", "g", "e">>
tourName == <<"n", "a", "m", "e">>
secretTour == <<"s", "e", "c", "r", "e", "t", "T", "o", "u", "r">>

\* a JavaScript value read off req.query: undefined, a string, an array of
\* strings (a repeated parameter) or an object (a bracketed parameter)
Undefined == [type |-> "undefined", str |-> <<>>, list |-> <<>>]
Str(s) == [type |-> "string", str |-> s, list |-> <<>>]
Array(l) == [type |-> "array", str |-> <<>>, list |-> l]
Object == [type |-> "object", str |-> <<>>, list |-> <<>>]

\* this.queryString[key]
Lookup(queryString, key) ==
  LET at == {i \in DOMAIN queryString : queryString[i].key = key}
  IN  IF at = {} THEN Undefined
      ELSE LET m == queryString[CHOOSE i \in at : TRUE]
           IN  IF m.nested THEN Object
               ELSE IF m.values # <<>> THEN Array(m.values)
               ELSE Str(m.value)

\* ToBoolean: undefined and '' are falsy, every array or object is truthy
ToBoolean(v) == v.type \in {"array", "object"} \/ (v.type = "string" /\ v.str # <<>>)

\* String.prototype.split(sep) for a one-character separator
Split(str, sep) ==
  LET RECURSIVE SplitFrom(_, _)
      SplitFrom(i, cur) ==
        IF i > Len(str) THEN <<cur>>
        ELSE IF str[i] = sep THEN <<cur>> \o SplitFrom(i + 1, <<>>)
        ELSE SplitFrom(i + 1, Append(cur, str[i]))
  IN  SplitFrom(1, <<>>)

\* Array.prototype.join(sep)
Join(list, sep) ==
  LET RECURSIVE JoinFrom(_)
      JoinFrom(i) ==
        IF i > Len(list) THEN <<>>
        ELSE (IF i > 1 THEN <<sep>> ELSE <<>>) \o list[i] \o JoinFrom(i + 1)
  IN  JoinFrom(1)

\* a JavaScript number is NaN or the decimal fraction n / d, d a power of ten
Num(n) == [nan |-> FALSE, n |-> n, d |-> 1]

RECURSIVE Reduce(_)
Reduce(x) ==
  IF x.d > 1 /\ x.n % 10 = 0 THEN Reduce([x EXCEPT !.n = @ \div 10, !.d = @ \div 10])
  ELSE x

Minus(x, k) == IF x.nan THEN NaN ELSE Reduce([x EXCEPT !.n = @ - k * x.d])
Times(x, y) ==
  IF x.nan \/ y.nan THEN NaN
  ELSE Reduce([nan |-> FALSE, n |-> x.n * y.n, d |-> x.d * y.d])

\* StringToNumber: '' is 0; an optional sign, digits and at most one point,
\* with a digit somewhere; anything else is NaN
StringToNumber(str) ==
  LET decimalDigits == <<"0", "1", "2", "3", "4", "5", "6", "7", "8", "9">>
      IsDigit(c) == \E i \in DOMAIN decimalDigits : decimalDigits[i] = c
      DigitValue(c) == (CHOOSE i \in DOMAIN decimalDigits : decimalDigits[i] = c) - 1
      RECURSIVE DecimalValue(_)
      DecimalValue(ds) ==
        IF ds = <<>> THEN 0
        ELSE 10 * DecimalValue(SubSeq(ds, 1, Len(ds) - 1)) + DigitValue(ds[Len(ds)])
      RECURSIVE PowerOfTen(_)
      PowerOfTen(k) == IF k = 0 THEN 1 ELSE 10 * PowerOfTen(k - 1)
      negative == str # <<>> /\ str[1] = "-"
      body == IF negative THEN Tail(str) ELSE str
      points == {i \in DOMAIN body : body[i] = "."}
      digits == SelectSeq(body, IsDigit)
      decimals == IF points = {} THEN 0
                  ELSE Len(body) - (CHOOSE i \in points : TRUE)
      wellFormed == /\ Cardinality(points) <= 1
                    /\ digits # <<>>
                    /\ \A i \in DOMAIN body : body[i] = "." \/ IsDigit(body[i])
  IN  IF str = <<>> THEN Num(0)
      ELSE IF ~wellFormed THEN NaN
      ELSE Reduce([nan |-> FALSE,
                   n |-> (IF negative THEN -1 ELSE 1) * DecimalValue(digits),
                   d |-> PowerOfTen(decimals)])

\* Number(value): undefined and '[object Object]' are NaN, an array converts
\* through its join(',')
ToNumber(v) ==
  IF v.type \in {"undefined", "object"} THEN NaN
  ELSE IF v.type = "string" THEN StringToNumber(v.str)
  ELSE StringToNumber(Join(v.list, ","))

\* Number(value) || otherwise: NaN and 0 are falsy
NumberOr(v, otherwise) ==
  IF ToNumber(v).nan \/ ToNumber(v).n = 0 THEN Num(otherwise) ELSE ToNumber(v)

\* a TypeError thrown by the engine (message and stack are not enumerable)
TypeError(message) ==
  [NoError EXCEPT
     !.cls = "TypeError", !.name = "TypeError", !.message = message,
     !.stack = StackOf("TypeError", message),
     !.own = {}]

\* the words of a mongoose sort or select argument: arg.split(/\s+/), empty ones skipped
Words(arg) == SelectSeq(Split(arg, " "), LAMBDA w : w # <<>>)

QuerySort_Ascending(options, arg) ==
  [options EXCEPT !.sort = [i \in DOMAIN Words(arg) |-> [key |-> Words(arg)[i], order |-> 1]]]

\* Query.sort(arg): each word is a key, a leading '-' makes it descending
QuerySort(options, arg) ==
  LET words == Words(arg)
      RECURSIVE SortFrom(_, _)
      SortFrom(i, acc) ==
        IF i > Len(words) THEN acc
        ELSE LET descending == words[i][1] = "-"
                 property == IF descending THEN Tail(words[i]) ELSE words[i]
             IN  SortFrom(i + 1, Put(acc, [key |-> property,
                                           order |-> IF descending THEN -1 ELSE 1]))
  IN  [options EXCEPT !.sort = SortFrom(1, @)]

\* Query.select(arg): each word is a path, a leading '-' excludes it
QuerySelect(options, arg) ==
  LET words == Words(arg)
      RECURSIVE SelectFrom(_, _)
      SelectFrom(i, acc) ==
        IF i > Len(words) THEN acc
        ELSE LET excluded == words[i][1] = "-"
                 path == IF excluded THEN Tail(words[i]) ELSE words[i]
             IN  SelectFrom(i + 1, Put(acc, [key |-> path,
                                             include |-> IF excluded THEN 0 ELSE 1]))
  IN  [options EXCEPT !.select = SelectFrom(1, @)]

\* a method of the chain returns this (err = NoError) or throws err
\* APIFeatures.sort()
SortOptions(queryString, options) ==
  LET sortValue == Lookup(queryString, sort)
  IN  IF ToBoolean(sortValue)
      THEN IF sortValue.type # "string"
           THEN [err |-> TypeError("this.queryString.sort.split is not a function"),
                 options |-> options]
           ELSE [err |-> NoError,
                 options |-> QuerySort(options, Join(Split(sortValue.str, ","), " "))]
      ELSE [err |-> NoError, options |-> QuerySort(options, <<"-">> \o ratingsAverage)]

\* APIFeatures.limitingFields()
LimitingFieldsOptions(queryString, options) ==
  LET fieldsValue == Lookup(queryString, fields)
      \* '-__v -createdAt -updatedAt'
      defaultSelect ==
        <<"-", "_", "_", "v", " ",
          "-", "c", "r", "e", "a", "t", "e", "d", "A", "t", " ",
          "-", "u", "p", "d", "a", "t", "e", "d", "A", "t">>
  IN  IF ToBoolean(fieldsValue)
      THEN IF fieldsValue.type # "string"
           THEN [err |-> TypeError("this.queryString.fields.split is not a function"),
                 options |-> options]
           ELSE [err |-> NoError,
                 options |-> QuerySelect(options, Join(Split(fieldsValue.str, ","), " "))]
      ELSE [err |-> NoError, options |-> QuerySelect(options, defaultSelect)]

\* APIFeatures.paginate()
DefaultPage == 1
DefaultLimit == 100

Skip_PageTimesLimit(pageNumber, limitNumber) == Times(pageNumber, limitNumber)
Skip(pageNumber, limitNumber) == Times(Minus(pageNumber, 1), limitNumber)

PaginateOptions(queryString, options) ==
  LET pageNumber == NumberOr(Lookup(queryString, page), DefaultPage)
      limitNumber == NumberOr(Lookup(queryString, limit), DefaultLimit)
  IN  [err |-> NoError,
       options |-> [options EXCEPT !.skip = Skip(pageNumber, limitNumber),
                                   !.limit = limitNumber]]

\* the query strings that give the four reserved parameters every shape:
\* key=value, key=a&key=b (an array), key[gte]=5 (an object), or no member
FeatureQueries ==
  LET AsMembers(key, v) ==
        IF v.type = "undefined" THEN <<>>
        ELSE IF v.type = "string" THEN <<Member(key, v.str)>>
        ELSE IF v.type = "array"
        THEN <<[Member(key, <<>>) EXCEPT !.values = v.list]>>
        ELSE <<NestedMember(key, gte, <<"5">>)>>
      sortValues ==
        {Undefined, Str(<<>>), Str(price),
         Str(<<"-">> \o ratingsAverage \o <<",">> \o price),
         Array(<<price, tourName>>), Object}
      fieldsValues ==
        {Undefined, Str(<<>>), Str(tourName \o <<",">> \o price),
         Str(tourName \o <<",", "-">> \o price), Array(<<tourName, price>>)}
      pageValues ==
        {Undefined, Str(<<"a", "b", "c">>), Str(<<"0">>), Str(<<"-", "1">>),
         Str(<<"1", ".", "5">>), Str(<<"2">>), Array(<<<<"2">>, <<"3">>>>)}
      limitValues ==
        {Undefined, Str(<<"a", "b", "c">>), Str(<<"0">>), Str(<<"-", "5">>),
         Str(<<"2", ".", "5">>), Str(<<"1", "0">>)}
  IN  {AsMembers(sort, s) \o AsMembers(fields, f) \o AsMembers(page, p)
         \o AsMembers(limit, l) :
         s \in sortValues, f \in fieldsValues, p \in pageValues, l \in limitValues}

\* GET /tours or GET /tours/get-top-5-cheap with the query string drawn from
\* FeatureQueries: its members are reserved keys, which filter() deletes
InitFeatures ==
  /\ mode \in Modes
  /\ now = StartTime
  /\ ticks = 0
  /\ users = [u \in UserIds |-> NoUserDoc]
  /\ tours = [t \in TourIds |-> NoTourDoc]
  /\ issued = {}
  /\ nRaw = 0
  /\ stale = {}
  /\ usedRaw = {}
  /\ \E route \in {"getAllTours", "getTop5Cheap"}, queryString \in FeatureQueries :
        req = [Fresh(route) EXCEPT !.query = queryString]

\* req.query.limit = '5'; req.query.sort = '-ratingsAverage,price';
\* req.query.fields = 'name,price,ratingsAverage,summary,difficulty'
AliasQuery(queryString) ==
  LET Assign(q, key, value) ==
        IF \E i \in DOMAIN q : q[i].key = key
        THEN [i \in DOMAIN q |-> IF q[i].key = key THEN Member(key, value) ELSE q[i]]
        ELSE Append(q, Member(key, value))
      summary == <<"s", "u", "m", "m", "a", "r", "y">>
      difficulty == <<"d", "i", "f", "f", "i", "c", "u", "l", "t", "y">>
  IN  Assign(Assign(Assign(queryString, limit, <<"5">>),
                    sort, <<"-">> \o ratingsAverage \o <<",">> \o price),
             fields, tourName \o <<",">> \o price \o <<",">> \o ratingsAverage
                     \o <<",">> \o summary \o <<",">> \o difficulty)

aliasTopTours ==
  /\ Running("aliasTopTours")
  /\ req' = NextOk([req EXCEPT !.query = AliasQuery(@)])
  /\ UNCHANGED <<mode, now, ticks, users, tours, issued, nRaw, stale, usedRaw>>

\* one method of the chain .sort().limitingFields().paginate() inside getAllTours:
\* a throw rejects the handler's promise, which handleAsyncErrors hands to next
Chained(r, position, outcome) ==
  IF outcome.err # NoError THEN handleAsyncErrors(r, outcome.err)
  ELSE [r EXCEPT !.features = [outcome.options EXCEPT !.at = position]]

sortQuery ==
  /\ Running("getAllTours")
  /\ req.features.at = 0
  /\ req' = Chained(Invoked(req), 1, SortOptions(req.query, req.features))
  /\ UNCHANGED <<mode, now, ticks, users, tours, issued, nRaw, stale, usedRaw>>

limitingFields ==
  /\ Running("getAllTours")
  /\ req.features.at = 1
  /\ req' = Chained(Invoked(req), 2, LimitingFieldsOptions(req.query, req.features))
  /\ UNCHANGED <<mode, now, ticks, users, tours, issued, nRaw, stale, usedRaw>>

paginate ==
  /\ Running("getAllTours")
  /\ req.features.at = 2
  /\ req' = Chained(Invoked(req), 3, PaginateOptions(req.query, req.features))
  /\ UNCHANGED <<mode, now, ticks, users, tours, issued, nRaw, stale, usedRaw>>

NextFeatures ==
  \/ aliasTopTours
  \/ sortQuery
  \/ limitingFields
  \/ paginate
  \/ globalErrorHandler

SpecFeatures == InitFeatures /\ [][NextFeatures]_vars

\* ---------------------------------------------------- reading the tours
\* GET /tours, GET /tours/get-top-5-cheap, GET /tours/:id.  The query strings
\* of the listings: filters on price and secretTour with values their schema
\* types cast, a sort, and a page of one record
ReceiveTourRead ==
  LET tourQueries ==
        { <<>>,
          <<Member(secretTour, <<"t", "r", "u", "e">>)>>,
          <<NestedMember(price, gte, <<"2", "0", "0">>)>>,
          <<Member(secretTour, <<"t", "r", "u", "e">>), Member(sort, <<"-">> \o price)>>,
          <<Member(sort, price), Member(limit, <<"1">>), Member(page, <<"2">>)>> }
  IN  /\ Arrives
      /\ \/ \E route \in {"getAllTours", "getTop5Cheap"}, queryString \in tourQueries :
              req' = [Fresh(route) EXCEPT !.query = queryString]
         \/ \E id \in TourIds \cup {MalformedId} :
              req' = [Fresh("getTour") EXCEPT !.id = id]

\* the tours a find with these conditions matches: each condition's string
\* value is cast to the path's type (Number for price, Boolean for secretTour).
\* pre(/^find/) calls this.find({ secretTour: { $ne: true } }): merged into the
\* conditions, the object takes the place of a string the client gave for
\* secretTour
Matching(conditions) ==
  LET CastBoolean(str) == str \in {<<"t", "r", "u", "e">>, <<"1">>, <<"y", "e", "s">>}
      Compare(op, a, b) ==
        CASE op = <<"$">> \o gte -> a >= b
          [] op = <<"$">> \o gt -> a > b
          [] op = <<"$">> \o lte -> a <= b
          [] op = <<"$">> \o lt -> a < b
          [] OTHER -> FALSE
      Satisfies(doc, m) ==
        IF m.key = price
        THEN IF m.nested THEN Compare(m.op, doc.price, StringToNumber(m.value).n)
             ELSE doc.price = StringToNumber(m.value).n
        ELSE IF m.key = secretTour
        THEN ~m.nested /\ doc.secretTour = CastBoolean(m.value)
        ELSE FALSE
  IN  {t \in TourIds :
         /\ PreFindTour(t)
         /\ \A i \in DOMAIN conditions :
               \/ (conditions[i].key = secretTour /\ ~conditions[i].nested)
               \/ Satisfies(tours[t], conditions[i])}

\* the orders storage may return the matching tours in under a chain of sort
\* keys: ties are in any order (the paths other than price are equal on every
\* stored tour)
Orderings(matching, chain) ==
  LET SortValue(t, key) == IF key = price THEN tours[t].price ELSE 0
      Precedes(a, b) ==
        \E k \in DOMAIN chain :
          /\ \A j \in 1..(k - 1) : SortValue(a, chain[j].key) = SortValue(b, chain[j].key)
          /\ IF chain[k].order = 1
             THEN SortValue(a, chain[k].key) < SortValue(b, chain[k].key)
             ELSE SortValue(a, chain[k].key) > SortValue(b, chain[k].key)
  IN  {s \in [1..Cardinality(matching) -> matching] :
         /\ \A i, j \in DOMAIN s : i # j => s[i] # s[j]
         /\ \A i, j \in DOMAIN s : i < j => ~Precedes(s[j], s[i])}

\* the whole handler: the chain .filter().sort().limitingFields().paginate()
\* (the first throw ends it), the query awaited, the answer
getAllTours ==
  /\ Running("getAllTours")
  /\ LET r == [Invoked(req) EXCEPT !.find = FilterConditions(req.query)]
         sorted == SortOptions(req.query, NoFeatures)
         projected == LimitingFieldsOptions(req.query, sorted.options)
         paginated == PaginateOptions(req.query, projected.options)
         options == [paginated.options EXCEPT !.at = 3]
         \* skip(n).limit(m) of the ordered records
         Window(ordered) ==
           LET last == options.skip.n + options.limit.n
           IN  SubSeq(ordered, options.skip.n + 1,
                      IF last < Len(ordered) THEN last ELSE Len(ordered))
     IN  IF sorted.err # NoError THEN req' = handleAsyncErrors(r, sorted.err)
         ELSE IF projected.err # NoError THEN req' = handleAsyncErrors(r, projected.err)
         ELSE \E ordered \in Orderings(Matching(r.find), options.sort) :
                req' = Respond([r EXCEPT !.features = options, !.result = Window(ordered)],
                               200, "success", "", NoJwt)
  /\ UNCHANGED <<mode, now, ticks, users, tours, issued, nRaw, stale, usedRaw>>

getTour ==
  /\ Running("getTour")
  /\ LET r == Invoked(req)
         tour == FindTourById(req.id)
     IN  IF req.id = MalformedId
         THEN req' = handleAsyncErrors(r, CastError("_id", "abc"))
         ELSE IF tour = 0
         THEN req' = NextErr(r, AppError("No tour found with the given ID", 404))
         ELSE req' = Respond([r EXCEPT !.result = <<tour>>], 200, "success", "", NoJwt)
  /\ UNCHANGED <<mode, now, ticks, users, tours, issued, nRaw, stale, usedRaw>>

\* Tour.aggregate(pipeline): pre('aggregate') puts $match secretTour != true
\* first, so these are the tours the pipeline reads
AggregateInput == {t \in TourIds : tours[t].exists /\ tours[t].secretTour # TRUE}

\* the tour routes with their reads
NextTourReads ==
  \/ ReceiveTourMutation
  \/ ReceiveTourRead
  \/ createTour
  \/ updateTour
  \/ deleteTour
  \/ aliasTopTours
  \/ getAllTours
  \/ getTour
  \/ globalErrorHandler

SpecTourReads == Init /\ [][NextTourReads]_vars

\* ------------------------------------------ two resetPassword requests at once
\* Two PATCH /reset-password/:token requests are in flight together: req is the
\* pair of them, and each runs its handler up to its next await (findOne, then
\* save).  The stored state is the one after ann signed up and asked for a
\* reset at StartTime; both requests present that raw token
InitRace ==
  /\ mode \in Modes
  /\ now = StartTime
  /\ ticks = 0
  /\ users = [u \in UserIds |->
                IF u = 1
                THEN createPasswordResetToken(
                       [NoUserDoc EXCEPT !.exists = TRUE, !.email = "ann@x.io",
                                         !.role = "user",
                                         !.password = BcryptHash("pass1234")],
                       1, StartTime)
                ELSE NoUserDoc]
  /\ tours = [t \in TourIds |-> NoTourDoc]
  /\ issued = {signToken(1, StartTime)}
  /\ nRaw = 1
  /\ stale = {}
  /\ usedRaw = {}
  /\ \E bodies \in [{1, 2} -> ResetBodies] :
        req = [p \in {1, 2} |->
                 [Fresh("resetPassword") EXCEPT !.token = 1, !.body = bodies[p]]]

\* resetPassword up to `await User.findOne(...)`: the document it will change
findResetUser(p) ==
  /\ req[p].pc = "run"
  /\ ~req[p].invoked
  /\ LET r == [req[p] EXCEPT !.invoked = TRUE]
         user == FindUserByResetToken(Sha256(r.token), now)
     IN  req' = [req EXCEPT ![p] =
                   IF user = NoUser
                   THEN NextErr(r, AppError("Token has either expired or is not valid", 400))
                   ELSE [r EXCEPT !.user = user]]
  /\ UNCHANGED <<mode, now, ticks, users, tours, issued, nRaw, stale, usedRaw>>

\* resetPassword from the assignments to the answer: `await user.save()` runs
\* the validators and writes the paths the handler and the save hooks changed
saveResetUser(p) ==
  /\ req[p].pc = "run"
  /\ req[p].invoked
  /\ LET r == req[p]
         bad == PasswordViolations(r.body.password, r.body.passwordConfirm)
         token == signToken(r.user, now)
     IN  IF bad # <<>>
         THEN /\ req' = [req EXCEPT ![p] = handleAsyncErrors(r, ValidationError(bad))]
              /\ UNCHANGED <<users, issued, stale, usedRaw>>
         ELSE /\ users' = [users EXCEPT ![r.user] =
                   PreSave(ClearResetToken([@ EXCEPT !.password = r.body.password]), now)]
              /\ issued' = issued \cup {token}
              /\ req' = [req EXCEPT ![p] = Respond(r, 200, "success", "", token)]
              /\ stale' = stale \cup {t \in issued : t.sub = r.user}
              /\ usedRaw' = usedRaw \cup {r.token}
  /\ UNCHANGED <<mode, now, ticks, tours, nRaw>>

NextRace ==
  \/ Tick
  \/ \E p \in {1, 2} : findResetUser(p)
  \/ \E p \in {1, 2} : saveResetUser(p)

SpecRace == InitRace /\ [][NextRace]_vars

\* ================================================================== claims
\* the middleware `name` takes its step
Step(name) == Running(name) /\ req' # req
\* the global error handler takes its step
ErrorStep == req.pc = "error" /\ req' # req

\* C1: a session token issued before a successful password change of its
\* principal is never admitted by protectedRoute afterwards, whatever its issue
\* time (the same second as the change included).
C1_StaleTokenNeverAdmitted ==
  req.user # NoUser => req.auth \notin stale

\* C2: protectedRoute admits (sets req.user, calls next()) only if a bearer
\* token is present, its signature and expiry verify, its subject is a stored
\* active principal and that principal's password was not changed after iat;
\* in every other case req.user stays unset, the error handler is called and
\* the downstream handler is never invoked.
C2_FourChecks ==
  /\ req.auth # NoJwt
  /\ req.auth.sig = "HS256"
  /\ Seconds(now) < req.auth.exp
  /\ req.auth.sub \in UserIds
  /\ users[req.auth.sub].exists
  /\ users[req.auth.sub].active
  /\ \/ users[req.auth.sub].passwordChangedAt = NoDate
     \/ req.auth.iat >= users[req.auth.sub].passwordChangedAt \div 1000

C2_AdmittedOnlyAfterFourChecks ==
  [][ /\ (req'.user # NoUser /\ req.user = NoUser)
           => (Step("protectedRoute") /\ C2_FourChecks /\ req'.user = req.auth.sub)
      /\ (Step("protectedRoute") /\ ~C2_FourChecks)
           => (req'.user = NoUser /\ req'.pc = "error" /\ ~req'.invoked)
      /\ (req'.invoked /\ Chain(req'.route)[1] = "protectedRoute")
           => req'.user # NoUser
    ]_vars

C2_Witness ==
  /\ req.route = "deleteMe"
  /\ req.user # NoUser
  /\ req.invoked
  /\ req.resp.code = 204
  /\ users[req.user].passwordChangedAt # NoDate

\* C3: a tour mutation requested by a principal whose role is not in the
\* route's allow-list (admin only) is answered 403.
AdminOnly == {"admin"}
TourMutations == {"createTour", "updateTour", "deleteTour"}

C3_NonAdminTourMutationForbidden ==
  ( /\ req.route \in TourMutations
    /\ req.pc = "done"
    /\ req.auth # NoJwt
    /\ restrictedRoute(AdminOnly, users[req.auth.sub].role) # NoError )
  => req.resp.code = 403

\* C4: once a resetPassword presenting the raw token R has succeeded, a later
\* resetPassword presenting R is rejected with 400 and changes nothing stored.
C4_ResetTokenSingleUse ==
  [][ /\ (Step("resetPassword") /\ req.token \in usedRaw)
           => /\ users' = users
              /\ issued' = issued
              /\ req'.pc = "error"
              /\ req'.err.statusCode = 400
              /\ req'.err.message = "Token has either expired or is not valid"
      /\ (ErrorStep /\ req.route = "resetPassword" /\ req.token \in usedRaw
             /\ req'.pc = "done")
           => req'.resp.code = 400
    ]_vars

C4_Witness ==
  /\ req.route = "resetPassword"
  /\ req.token \in usedRaw
  /\ req.pc = "done"
  /\ req.resp.code = 400
  /\ now < StartTime + 10 * 60 * 1000

\* C5: resetPassword changes a stored principal only if the SHA-256 of the
\* presented token equals its stored passwordResetToken and the time is
\* strictly before passwordResetTokenExpires; a newly stored token expires
\* exactly 10 minutes after it was generated; storage holds digests only.
C5_ResetOnlyWithLiveDigest ==
  [][ /\ \A u \in UserIds :
            (Step("resetPassword") /\ users'[u] # users[u])
            => /\ users[u].passwordResetToken = Sha256(req.token)
               /\ now < users[u].passwordResetTokenExpires
      /\ \A u \in UserIds :
            ( /\ users'[u].passwordResetToken # users[u].passwordResetToken
              /\ users'[u].passwordResetToken # NoToken )
            => /\ users'[u].passwordResetTokenExpires = now + 10 * 60 * 1000
               /\ users'[u].passwordResetToken = Sha256(nRaw')
               /\ nRaw' = nRaw + 1
      /\ \A u \in UserIds : users'[u].passwordResetToken \notin 1..nRaw'
    ]_vars

C5_Witness ==
  /\ req.route = "resetPassword"
  /\ req.pc = "done"
  /\ req.resp.code = 200
  /\ req.token \in usedRaw
  /\ now > StartTime

\* C6: a resetPassword rejected because the token matches no principal and one
\* rejected because the matching principal's token has expired hand the same
\* error to the error handler and get the same response (status 400).
C6_NoMatch ==
  \A u \in UserIds :
    ~(users[u].exists /\ users[u].passwordResetToken = Sha256(req.token))
C6_Expired ==
  \E u \in UserIds :
    /\ users[u].exists
    /\ users[u].passwordResetToken = Sha256(req.token)
    /\ users[u].passwordResetTokenExpires <= now

C6_RejectedResetIndistinguishable ==
  [][ /\ (Step("resetPassword") /\ (C6_NoMatch \/ C6_Expired))
           => /\ req'.pc = "error"
              /\ req'.err = AppError("Token has either expired or is not valid", 400)
              /\ users' = users
      /\ ( /\ ErrorStep /\ req.route = "resetPassword" /\ req'.pc = "done"
            /\ req.err.cls = "AppError" )
           => /\ req'.resp.code = 400
              /\ req'.resp.status = "fail"
              /\ req'.resp.token = NoJwt
              /\ req'.resp.message = IF mode = "development"
                                      THEN "Token has either expired or is not valid"
                                      ELSE ""
    ]_vars

C6_Witness ==
  /\ req.route = "resetPassword"
  /\ req.pc = "done"
  /\ req.resp.code = 400
  /\ C6_Expired

\* C7: a bearer token that fails jwt.verify (bad signature or expired) is
\* answered with HTTP status 401.
C7_BadTokenAnswered401 ==
  (req.pc = "done" /\ req.err.cls \in {"JsonWebTokenError", "TokenExpiredError"})
  => req.resp.code = 401

\* C8: a token whose subject is an inactive (deleteMe'd) principal is rejected
\* by protectedRoute, with 401 when the token verifies; an inactive principal
\* never becomes active again.
C8_DeletedPrincipalRejected ==
  [][ /\ ( /\ Step("protectedRoute")
            /\ req.auth.sub \in UserIds
            /\ users[req.auth.sub].exists
            /\ ~users[req.auth.sub].active )
           => /\ req'.user = NoUser
              /\ req'.pc = "error"
              /\ ~req'.invoked
              /\ (req.auth.sig = "HS256" /\ Seconds(now) < req.auth.exp)
                   => /\ req'.err.statusCode = 401
                      /\ req'.err.message = "The user for this token no longer exists"
      /\ ( /\ ErrorStep /\ req'.pc = "done"
            /\ req.err.message = "The user for this token no longer exists" )
           => req'.resp.code = 401
      /\ \A u \in UserIds : (users[u].exists /\ ~users[u].active) => ~users'[u].active
    ]_vars

C8_Witness ==
  /\ req.route = "deleteMe"
  /\ req.pc = "done"
  /\ req.resp.code = 401
  /\ req.auth \in issued
  /\ ~users[req.auth.sub].active
  /\ ~req.invoked

\* C9: a signUp that hits the unique index on email (code 11000) is answered
\* with a 4xx status, status field "fail" and a message naming the email field
\* and value, never with a 500.
C9_DuplicateEmailAnswered4xx ==
  (req.pc = "done" /\ req.route = "signup" /\ req.err.code = 11000)
  => /\ req.resp.code \in 400..499
     /\ req.resp.status = "fail"
     /\ req.resp.message = "email: " \o req.err.keyValue.value
                            \o " already exists! Enter a different value"

\* C10: an error that is not operational and not a cast, duplicate-key or
\* validation error is answered in production with 500, status "error" and a
\* generic message without the original message or stack, and in development
\* with the original message and the stack.
C10_Unclassified ==
  /\ req.err.cls # "none"
  /\ ~req.err.isOperational
  /\ req.err.name \notin {"CastError", "ValidationError"}
  /\ req.err.code # 11000

C10_UnclassifiedErrorResponse ==
  (req.pc = "done" /\ C10_Unclassified)
  => /\ mode = "production"
          => /\ req.resp.code = 500
             /\ req.resp.status = "error"
             /\ req.resp.message # req.err.message
             /\ req.resp.stack = ""
     /\ mode = "development"
          => /\ req.resp.message = req.err.message
             /\ req.resp.stack = req.err.stack

\* C11: an AppError built by a controller or the gate reaches the client, in
\* development and in production, with its own statusCode, the matching
\* status field and its own message.
C11_AppErrorDeliveredVerbatim ==
  ( /\ req.pc = "done"
    /\ req.err.cls = "AppError"
    /\ mode \in {"development", "production"} )
  => /\ req.resp.code = req.err.statusCode
     /\ req.resp.status = (IF req.err.statusCode \div 100 = 4 THEN "fail" ELSE "error")
     /\ req.resp.message = req.err.message

\* C12: a request whose handling failed and which the error handler has left
\* has been answered by exactly one response write, whatever the mode.
C12_FailedRequestAnsweredOnce ==
  (req.err # NoError /\ req.pc \in {"done", "hung"}) => req.writes = 1

\* C13: when forgotPassword's e-mail delivery fails, the principal's
\* passwordResetToken and passwordResetTokenExpires are unset once the handler
\* is through, a written response has status 500, and the raw token of that
\* request never completes a reset: a digest that storage does not hold is
\* never stored later and its raw token never joins the used ones.
C13_SendFailed == Step("forgotPassword") /\ req'.pc = "error" /\ req'.err.statusCode = 500

C14_StoredAsHash(password) ==
  /\ password \notin Passwords
  /\ \E plain \in Passwords : password = BcryptHash(plain)

C14_PasswordStoredHashed ==
  [][ /\ \A u \in UserIds : users'[u].exists => C14_StoredAsHash(users'[u].password)
      /\ (Step("forgotPassword") \/ Step("updateMe"))
         => \A u \in UserIds : users'[u].password = users[u].password
    ]_vars

\* a principal whose password was reset has then updated its e-mail address
C14_Witness ==
  /\ req.route = "updateMe"
  /\ req.pc = "done"
  /\ req.resp.code = 200
  /\ req.user # NoUser
  /\ users[req.user].password = BcryptHash("pass5678")
  /\ users[req.user].passwordResetToken = NoToken
  /\ nRaw > 0

\* C15: a login with email and password present is answered 200 with a token
\* exactly when the email is that of an active principal whose stored hash the
\* password matches; otherwise the one error 401 'Incorrect email or password'
\* is raised, for an unknown email and for a wrong password alike; a login
\* missing email or password raises 400 and issues no token; what the error
\* handler writes for a login carries the raised status code.
C15_Credentials(u) ==
  /\ users[u].exists
  /\ users[u].active
  /\ users[u].email = ToLower(req.body.email)
  /\ users[u].password = BcryptHash(req.body.password)

C15_LoginDecision ==
  [][ /\ Step("login")
         => IF req.body.email = "" \/ req.body.password = ""
            THEN /\ req'.pc = "error"
                 /\ req'.err = AppError("Please provide email and password", 400)
                 /\ issued' = issued
            ELSE IF \E u \in UserIds : C15_Credentials(u)
            THEN /\ req'.pc = "done"
                 /\ req'.resp.code = 200
                 /\ req'.resp.token = signToken(CHOOSE u \in UserIds : C15_Credentials(u), now)
                 /\ issued' = issued \cup {req'.resp.token}
            ELSE /\ req'.pc = "error"
                 /\ req'.err = AppError("Incorrect email or password", 401)
                 /\ issued' = issued
      /\ (ErrorStep /\ req.route = "login" /\ req'.pc = "done")
         => /\ req'.resp.code = req.err.statusCode
            /\ req'.resp.token = NoJwt
    ]_vars

\* a login is turned down with 401 although a principal is stored
C15_Witness ==
  /\ req.route = "login"
  /\ req.pc = "done"
  /\ req.resp.code = 401
  /\ \E u \in UserIds : users[u].exists /\ users[u].active

\* C16: an authenticated principal's update-password request is answered 200
\* with a fresh token by a handler that authController exports.
C16_UpdatePasswordAnswered ==
  ( /\ req.route = "updateMyPassword"
    /\ req.user # NoUser
    /\ req.pc \in {"done", "hung"} )
  => /\ \A i \in DOMAIN Chain(req.route) : IsFunction(Chain(req.route)[i])
     /\ req.resp.code = 200
     /\ req.resp.token # NoJwt

\* C17: the principal an unauthenticated signUp creates has role 'user' and no
\* passwordChangedAt, whatever the request body carried.
C17_SignUpIgnoresPrivilegedFields ==
  ( /\ req.route = "signup"
    /\ req.pc = "done"
    /\ req.resp.code = 201 )
  => /\ users[req.resp.token.sub].role = "user"
     /\ users[req.resp.token.sub].passwordChangedAt = NoDate

\* C18: for a query string whose keys are all among page, sort, limit and
\* fields, whatever their values, filter() hands storage the empty conditions
\* object, which matches every record.
C18_ReservedKeysOnly ==
  \A i \in DOMAIN req.query : req.query[i].key \in excludedFields

C18_ReservedKeysGiveEmptyPredicate ==
  (req.pc = "done" /\ C18_ReservedKeysOnly) => req.find = <<>>

C18_Witness ==
  /\ req.pc = "done"
  /\ Len(req.query) = 2
  /\ C18_ReservedKeysOnly
  /\ req.query[1].nested
  /\ req.find = <<>>

\* C19: for every field f that is not a reserved key, every suffix s among
\* gte, gt, lte, lt and every value V, a query string with f[s]=V makes
\* filter() hand storage the range condition f: {$s: V}.
C19_RangePredicate ==
  req.pc = "done"
  => \A i \in DOMAIN req.query :
        ( /\ req.query[i].nested
          /\ req.query[i].key \notin excludedFields
          /\ req.query[i].op \in {gte, gt, lte, lt} )
        => \E j \in DOMAIN req.find :
              req.find[j] = NestedMember(req.query[i].key, <<"$">> \o req.query[i].op,
                                         req.query[i].value)

\* C20: every top-level key k outside the reserved ones with a string value v
\* reaches storage as the equality condition k = v, key and value unaltered.
C20_EqualityPassedThrough ==
  req.pc = "done"
  => \A i \in DOMAIN req.query :
        (~req.query[i].nested /\ req.query[i].key \notin excludedFields)
        => \E j \in DOMAIN req.find :
              req.find[j] = Member(req.query[i].key, req.query[i].value)

\* C21: paginate() passes skip = (page - 1) * limit and limit, where page is
\* the numeric value of queryString.page, or 1 when it is absent or not
\* numeric, and limit is the numeric value of queryString.limit, or 100 when it
\* is absent or not numeric; page=2 and limit=10 give skip 10 and limit 10, no
\* parameters give skip 0 and limit 100, page=abc gives skip 0.
C21_Paginated == req.features.at = 3
C21_Absent(key) == \A i \in DOMAIN req.query : req.query[i].key # key
C21_Is(key, str) == \E i \in DOMAIN req.query : req.query[i] = Member(key, str)
C21_Numeric(key) ==
  ~ToNumber(Lookup(req.query, key)).nan /\ ToNumber(Lookup(req.query, key)).n # 0
C21_Used(key, otherwise) ==
  IF C21_Numeric(key) THEN ToNumber(Lookup(req.query, key)) ELSE Num(otherwise)

C22_SkipAndLimitAreCounts ==
  C21_Paginated =>
    /\ ~req.features.skip.nan /\ req.features.skip.d = 1 /\ req.features.skip.n >= 0
    /\ ~req.features.limit.nan /\ req.features.limit.d = 1 /\ req.features.limit.n > 0

\* C23: the projection limitingFields() passes to storage is pure inclusion or
\* pure exclusion, never a mixture: without fields it excludes __v, createdAt
\* and updatedAt; with fields (name,-price included) it only includes.
C23_Projected == req.features.at >= 2
C23_PureProjection ==
  C23_Projected =>
    /\ \A i, j \in DOMAIN req.features.select :
          req.features.select[i].include = req.features.select[j].include
    /\ C21_Absent(fields)
       => req.features.select =
            << [key |-> <<"_", "_", "v">>, include |-> 0],
               [key |-> <<"c", "r", "e", "a", "t", "e", "d", "A", "t">>, include |-> 0],
               [key |-> <<"u", "p", "d", "a", "t", "e", "d", "A", "t">>, include |-> 0] >>
    /\ ToBoolean(Lookup(req.query, fields))
       => \A i \in DOMAIN req.features.select : req.features.select[i].include = 1

\* C24: sort() passes storage the comma-separated fields of queryString.sort
\* as a chain of keys in the order given, a leading '-' meaning descending;
\* without sort the chain is ratingsAverage descending alone.  On the alias
\* route (sort=-ratingsAverage,price, limit=5) the query asks for
\* ratingsAverage descending, then price ascending, and at most 5 records.
C24_Key(field) ==
  [key |-> IF field[1] = "-" THEN Tail(field) ELSE field,
   order |-> IF field[1] = "-" THEN -1 ELSE 1]
C24_Chain(str) == [i \in DOMAIN Split(str, ",") |-> C24_Key(Split(str, ",")[i])]

C24_SortChain ==
  /\ req.features.at >= 1
     => /\ C21_Absent(sort)
           => req.features.sort = << [key |-> ratingsAverage, order |-> -1] >>
        /\ \A i \in DOMAIN req.query :
              (req.query[i].key = sort /\ ~req.query[i].nested
                 /\ req.query[i].values = <<>> /\ req.query[i].value # <<>>)
              => req.features.sort = C24_Chain(req.query[i].value)
  /\ (C21_Paginated /\ req.route = "getTop5Cheap")
     => /\ req.features.sort = << [key |-> ratingsAverage, order |-> -1],
                                  [key |-> price, order |-> 1] >>
        /\ req.features.limit = Num(5)

C24_Witness ==
  /\ C21_Paginated
  /\ req.route = "getTop5Cheap"
  /\ req.features.sort = << [key |-> ratingsAverage, order |-> -1],
                            [key |-> price, order |-> 1] >>
  /\ req.features.limit = Num(5)

\* C25: the sort, projection and paginate steps never fail: whatever shape
\* their parameter has (absent, empty, a string, a list of strings) each step
\* applies it or falls back to its default and returns the pipeline.
C25_StepsNeverFail ==
  req.route \in {"getAllTours", "getTop5Cheap"}
  => (req.err = NoError /\ req.pc # "error" /\ req.resp.code # 500)

\* C26: whatever the client's query (a filter secretTour=true included), no
\* tour whose secretTour flag is true is in the result of getAllTours, getTour
\* or the top-5 alias, nor among the tours the statistics aggregation reads;
\* update and delete by id leave such a tour untouched and hand error 404 on.
C26_IsSecret(id) == id \in TourIds /\ tours[id].exists /\ tours[id].secretTour

C26_ResultHidesSecret ==
  /\ req.pc = "done" => \A i \in DOMAIN req.result : ~C26_IsSecret(req.result[i])
  /\ \A t \in AggregateInput : ~C26_IsSecret(t)

C27_ReturnedByReset(token) ==
  /\ token.sig = "HS256"
  /\ token.sub \in UserIds
  /\ users[token.sub].exists
  /\ users[token.sub].passwordChangedAt # NoDate
  /\ token.iat = Seconds(users[token.sub].passwordChangedAt + PasswordChangedSkew)
  /\ usedRaw # {}
  /\ Seconds(now) < token.exp

C27_ResetTokenAdmittedWhileActive ==
  [][ (Step("protectedRoute") /\ C27_ReturnedByReset(req.auth)
         /\ users[req.auth.sub].active)
      => (req'.user = req.auth.sub /\ req'.pc = "run" /\ req'.err = NoError)
    ]_vars

C27_Witness ==
  /\ req.user # NoUser
  /\ req.idx = 2
  /\ C27_ReturnedByReset(req.auth)
  /\ req.resp.code = 0

\* C27 as stated: admitted on every later request until the next password
\* change or the token's expiry.
C27_ResetTokenAlwaysAdmitted ==
  [][ (Step("protectedRoute") /\ C27_ReturnedByReset(req.auth))
      => (req'.user = req.auth.sub /\ req'.pc = "run" /\ req'.err = NoError)
    ]_vars

\* C28: of two resetPassword requests that present the same valid raw token
\* and interleave at their awaits (the lookup, the save), at most one sets a
\* password and receives a session token: the lookups never both pass before
\* a save has cleared the token.
C28_AtMostOneResetSucceeds ==
  Cardinality({p \in DOMAIN req : req[p].resp.code = 200 /\ req[p].resp.token # NoJwt}) <= 1

\* C29: a resetPassword that presents a valid, unexpired token but fails
\* validation on save (a password shorter than 8 characters, or a
\* passwordConfirm that differs) leaves the stored principal unchanged, issues
\* no token, and leaves the raw token able to complete a reset.
C29_ValidToken == FindUserByResetToken(Sha256(req.token), now) # NoUser
C29_FailsValidation ==
  \/ Len(req.body.password) < 8
  \/ req.body.passwordConfirm # req.body.password

C29_FailedResetChangesNothing ==
  [][ (Step("resetPassword") /\ C29_ValidToken /\ C29_FailsValidation)
      => /\ users' = users
         /\ issued' = issued
         /\ req'.pc = "error"
         /\ req'.resp.token = NoJwt
         /\ C29_ValidToken'
         /\ req.token \notin usedRaw'
    ]_vars

C29_Witness ==
  /\ req.route = "resetPassword"
  /\ req.pc = "error"
  /\ req.err.cls = "ValidationError"
  /\ C29_ValidToken

\* C30: updateMe changes at most the name and the email of the acting
\* principal: role, password, passwordChangedAt, the reset-token fields and
\* active keep their values, no other principal changes, and a body with
\* password or passwordConfirm is refused with 400 and changes nothing.
C30_UpdateMeFrame ==
  [][ Step("updateMe")
      => /\ \A u \in UserIds :
              /\ users'[u] = [users[u] EXCEPT !.email = users'[u].email]
              /\ u # req.user => users'[u] = users[u]
         /\ (req.body.password # "" \/ req.body.passwordConfirm # "")
              => /\ users' = users
                 /\ req'.pc = "error"
                 /\ req'.err.statusCode = 400
    ]_vars

C30_Witness ==
  /\ req.route = "updateMe"
  /\ req.pc = "done"
  /\ req.resp.code = 200
  /\ req.user # NoUser
  /\ users[req.user].email = "ann@x.io"
  /\ users[req.user].role = "user"
====
